---- MODULE Spec2Model ----
(***************************************************************************)
(* Model of the aimakerspace RAG core:                                     *)
(*   - VectorDatabase (02_Embeddings_and_RAG/aimakerspace/vectordatabase.py)*)
(*   - CharacterTextSplitter, TokenCounter                                 *)
(*       (02_Embeddings_and_RAG/aimakerspace/text_utils.py)                *)
(*   - the LangGraph agents of 16_Production_RAG_and_Guardrails            *)
(*       (langgraph_agent_lib/agents.py, agents_with_guardrails.py)        *)
(* Vectors are integer sequences; the integer-valued metrics of the source *)
(* (dot product, negative L1 distance) are computed exactly.  The          *)
(* real-valued metrics (cosine, negative L2 distance) are passed to search *)
(* the same way and are not drawn as inputs here.                          *)
(***************************************************************************)
EXTENDS Integers, Sequences, FiniteSets, TLC

\* ------------------------------------------------------------------ bounds
MaxCoord == 1      \* vector components range over 0..MaxCoord
MaxK == 3          \* k ranges over -MaxK..MaxK
MaxTexts == 2      \* abuild_from_list gets at most MaxTexts texts
MaxTok == 1        \* count_tokens returns values in -1..MaxTok
MaxCtx == 2        \* max_context_tokens ranges over 0..MaxCtx
MaxReserve == 1    \* reserve_tokens ranges over 0..MaxReserve
MaxChunk == 3      \* chunk_size, chunk_overlap range over -MaxChunk..MaxChunk
MaxLen == 5        \* texts given to split have at most MaxLen characters
MaxTokens == 2     \* encode gives token lists of 0..MaxTokens tokens
MaxMessages == 2   \* count_messages gets at most MaxMessages messages
MaxLoops == 2      \* max_refinement_loops ranges over 0..MaxLoops
MaxToolCalls == 1  \* the model requests tools at most MaxToolCalls times in a run
MaxHistory == 1    \* a run starts with at most MaxHistory messages before the user's
MaxIter == 4       \* max_iterations ranges over 0..MaxIter

\* None where a vector is expected: no vector is empty
None == <<>>
\* no call of search_by_text_with_token_budget is running
NoFrame == [pc |-> "idle"]
\* no CharacterTextSplitter has been constructed
NoSplitter == [constructed |-> FALSE]
\* no TokenCounter has been constructed
NoCounter == [constructed |-> FALSE]
\* the two coroutines of abuild_from_list that share the store
Tasks == {"a", "b"}
\* no coroutine has been started and none holds the event loop
NoTasks == [running |-> "none",
            tasks |-> [t \in Tasks |-> [pc |-> "new"]],
            requests |-> [t \in Tasks |-> 0],
            started |-> <<>>,
            serial |-> <<>>]
\* no agent graph has been invoked
NoRun == [kind |-> "none", node |-> "none"]

Keys == {"A", "B", "C"}
Vectors == {<<x>> : x \in 0..MaxCoord}
K == (0 - MaxK)..MaxK
Metrics == {"dot_product", "manhattan"}

VARIABLES
    vectors,       \* self.vectors: the dict, as its items in iteration order
    insertOrder,   \* history: keys in the order of their first insert call
    lastInserted,  \* history: key -> vector of the most recent insert call
    reinserted,    \* history: some insert call named a key inserted before
    frame,         \* locals of a running search_by_text_with_token_budget
    splitter,      \* the CharacterTextSplitter instance (None before __init__)
    ret,           \* the last call: its arguments and what it returned
    counter,       \* the TokenCounter instance and the results it has given
    graph,         \* one run of a compiled agent graph
    loop           \* the asyncio event loop running abuild_from_list calls

vars == <<vectors, insertOrder, lastInserted, reinserted, frame, splitter, ret,
          counter, graph, loop>>

\* ------------------------------------------------------------ python helpers
Min(a, b) == IF a < b THEN a ELSE b
Max(a, b) == IF a > b THEN a ELSE b
Abs(a) == IF a < 0 THEN 0 - a ELSE a

\* s[:k] of a Python sequence
SliceTo(s, k) ==
    IF k >= 0 THEN SubSeq(s, 1, Min(k, Len(s)))
    ELSE SubSeq(s, 1, Max(0, Len(s) + k))

\* s[start:stop] of a Python sequence, for 0 <= start (0-based offsets)
Slice(s, start, stop) ==
    LET n == Len(s)
        e0 == IF stop < 0 THEN Max(0, stop + n) ELSE Min(stop, n)
        b0 == Min(start, n)
    IN  SubSeq(s, b0 + 1, e0)

RECURSIVE SumTo(_, _)
SumTo(f, n) == IF n = 0 THEN 0 ELSE SumTo(f, n - 1) + f[n]

\* ------------------------------------------------------------------ metrics
dot_product_similarity(vector_a, vector_b) ==
    SumTo([i \in 1..Len(vector_a) |-> vector_a[i] * vector_b[i]], Len(vector_a))

manhattan_similarity(vector_a, vector_b) ==
    0 - SumTo([i \in 1..Len(vector_a) |-> Abs(vector_a[i] - vector_b[i])], Len(vector_a))

DISTANCE_METRICS(name, vector_a, vector_b) ==
    CASE name = "dot_product" -> dot_product_similarity(vector_a, vector_b)
      [] name = "manhattan" -> manhattan_similarity(vector_a, vector_b)

\* ----------------------------------------------------------- VectorDatabase
HasKey(d, key) == \E i \in 1..Len(d) : d[i][1] = key
IndexOf(d, key) == CHOOSE i \in 1..Len(d) : d[i][1] = key
KeySet(d) == {d[i][1] : i \in 1..Len(d)}

\* insert as dict.setdefault would do it: an existing key keeps its vector
insert_keep_first(d, key, vector) ==
    IF HasKey(d, key) THEN d ELSE Append(d, <<key, vector>>)

\* insert into a list of pairs instead of a dict: a second entry for the key
insert_append(d, key, vector) == Append(d, <<key, vector>>)

\* dict.__setitem__: an existing key keeps its position
insert(d, key, vector) ==
    IF HasKey(d, key)
    THEN [d EXCEPT ![IndexOf(d, key)] = <<key, vector>>]
    ELSE Append(d, <<key, vector>>)

\* dict.get(key, None)
retrieve_from_key(d, key) ==
    IF HasKey(d, key) THEN d[IndexOf(d, key)][2] ELSE None

\* self.vectors[key] on the defaultdict: a missing key gets an entry
vectors_after_getitem(d, key) ==
    IF HasKey(d, key) THEN d ELSE Append(d, <<key, <<0>>>>)

\* self.vectors after self.vectors.get(key, None): get never calls the
\* default_factory of the defaultdict
vectors_after_get(d, key) == d

\* sorted(..., key=lambda x: x[1])[::-1]: descending, ties in reverse order
InsertDesc_ties_reversed(t, x) ==
    LET n == Cardinality({i \in 1..Len(t) : t[i][2] > x[2]})
    IN  SubSeq(t, 1, n) \o <<x>> \o SubSeq(t, n + 1, Len(t))

\* sorted(..., key=lambda x: x[1], reverse=True): stable, descending
InsertDesc(t, x) ==
    LET n == Cardinality({i \in 1..Len(t) : t[i][2] >= x[2]})
    IN  SubSeq(t, 1, n) \o <<x>> \o SubSeq(t, n + 1, Len(t))

RECURSIVE sorted_desc(_)
sorted_desc(s) ==
    IF s = <<>> THEN <<>>
    ELSE InsertDesc(sorted_desc(SubSeq(s, 1, Len(s) - 1)), s[Len(s)])

\* the slice taken before the sort: the first k keys of the dict, sorted
search_slice_first(d, query_vector, k, distance_measure) ==
    LET scores == [i \in 1..Len(d) |->
                     <<d[i][1], DISTANCE_METRICS(distance_measure, query_vector, d[i][2])>>]
    IN  sorted_desc(SliceTo(scores, k))

search(d, query_vector, k, distance_measure) ==
    LET scores == [i \in 1..Len(d) |->
                     <<d[i][1], DISTANCE_METRICS(distance_measure, query_vector, d[i][2])>>]
    IN  SliceTo(sorted_desc(scores), k)

\* ---------------------------------------------------------------- Init
Init ==
    /\ vectors = <<>>
    /\ insertOrder = <<>>
    /\ lastInserted = [key \in Keys |-> None]
    /\ reinserted = FALSE
    /\ frame = NoFrame
    /\ splitter = NoSplitter
    /\ ret = [op |-> "init"]
    /\ counter = NoCounter
    /\ graph = NoRun
    /\ loop = NoTasks

\* the history of insert calls, kept beside the dict
Logged(h, key, vector) ==
    LET seen == \E i \in 1..Len(h.order) : h.order[i] = key
    IN  [order |-> IF seen THEN h.order ELSE Append(h.order, key),
         last |-> [h.last EXCEPT ![key] = vector],
         again |-> h.again \/ seen]

History == [order |-> insertOrder, last |-> lastInserted, again |-> reinserted]

\* every call below is made by a caller that holds no earlier result
Idle == frame = NoFrame /\ ret.op \in {"init", "idle"}

Insert ==
    /\ Idle
    /\ \E key \in Keys, vector \in Vectors :
        /\ vectors' = insert(vectors, key, vector)
        /\ insertOrder' = Logged(History, key, vector).order
        /\ lastInserted' = Logged(History, key, vector).last
        /\ reinserted' = Logged(History, key, vector).again
    /\ ret' = [op |-> "insert"]
    /\ UNCHANGED <<frame, splitter, counter, graph, loop>>

Search ==
    /\ Idle
    /\ \E query_vector \in Vectors, k \in K, distance_measure \in Metrics :
        ret' = [op |-> "search", query_vector |-> query_vector, k |-> k,
                distance_measure |-> distance_measure,
                result |-> search(vectors, query_vector, k, distance_measure)]
    /\ UNCHANGED <<vectors, insertOrder, lastInserted, reinserted, frame, splitter, counter, graph, loop>>

RetrieveFromKey ==
    /\ Idle
    /\ \E key \in Keys :
        /\ ret' = [op |-> "retrieve_from_key", key |-> key,
                   result |-> retrieve_from_key(vectors, key), pre |-> vectors]
        /\ vectors' = vectors_after_get(vectors, key)
    /\ UNCHANGED <<insertOrder, lastInserted, reinserted, frame, splitter, counter, graph, loop>>

\* ------------------------------------------------------- abuild_from_list
TextLists == UNION {[1..n -> Keys] : n \in 0..MaxTexts}
EmbeddingLists == UNION {[1..n -> Vectors] : n \in 0..(MaxTexts + 1)}

\* np.array(embedding): the array of the list's numbers
np_array(embedding) == [i \in 1..Len(embedding) |-> embedding[i]]

\* the body of  for text, embedding in zip(list_of_text, embeddings, strict=True)
\* after n pairs
RECURSIVE ZipInsert(_, _, _, _)
ZipInsert(d, list_of_text, embeddings, n) ==
    IF n = 0 THEN d
    ELSE insert(ZipInsert(d, list_of_text, embeddings, n - 1),
                list_of_text[n], np_array(embeddings[n]))

\* zip without strict=True: stops at the shorter argument and raises nothing
abuild_from_list_truncating(d, list_of_text, embeddings) ==
    LET n == Min(Len(list_of_text), Len(embeddings))
    IN  [vectors |-> ZipInsert(d, list_of_text, embeddings, n), error |-> "none"]

\* zip(..., strict=True) yields the pairs of the shorter argument, then raises
\* ValueError if the other one has more
abuild_from_list(d, list_of_text, embeddings) ==
    LET n == Min(Len(list_of_text), Len(embeddings))
    IN  [vectors |-> ZipInsert(d, list_of_text, embeddings, n),
         error |-> IF Len(list_of_text) = Len(embeddings) THEN "none" ELSE "ValueError"]

RECURSIVE LogAll(_, _, _, _)
LogAll(h, list_of_text, embeddings, n) ==
    IF n = 0 THEN h
    ELSE Logged(LogAll(h, list_of_text, embeddings, n - 1), list_of_text[n], embeddings[n])

\* the provider answers the one request of the call
AbuildFromList ==
    /\ Idle
    /\ \E list_of_text \in TextLists, embeddings \in EmbeddingLists :
        LET r == abuild_from_list(vectors, list_of_text, embeddings)
            h == LogAll(History, list_of_text, embeddings,
                        Min(Len(list_of_text), Len(embeddings)))
        IN  /\ vectors' = r.vectors
            /\ insertOrder' = h.order
            /\ lastInserted' = h.last
            /\ reinserted' = h.again
            /\ ret' = [op |-> "abuild_from_list", list_of_text |-> list_of_text,
                       embeddings |-> embeddings, error |-> r.error, pre |-> vectors]
    /\ UNCHANGED <<frame, splitter, counter, graph, loop>>

\* the provider raises: the await never yields embeddings
AbuildProviderRaises ==
    /\ Idle
    /\ \E list_of_text \in TextLists :
        ret' = [op |-> "abuild_from_list", list_of_text |-> list_of_text,
                error |-> "ProviderError", pre |-> vectors]
    /\ UNCHANGED <<vectors, insertOrder, lastInserted, reinserted, frame, splitter, counter, graph, loop>>

\* ------------------------------------------- search_by_text_with_token_budget
\* embedding_model.get_embedding(query_text) is the query_vector drawn by the caller
search_by_text(d, query_vector, k, distance_measure, return_as_text) ==
    LET results == search(d, query_vector, k, distance_measure)
    IN  IF return_as_text THEN [i \in 1..Len(results) |-> results[i][1]] ELSE results

TokRange == (0 - 1)..MaxTok

\* the limit without the clamp at 0
budget_limit_unclamped(max_context_tokens, reserve_tokens) ==
    max_context_tokens - reserve_tokens

budget_limit(max_context_tokens, reserve_tokens) ==
    Max(0, max_context_tokens - reserve_tokens)

\* the budget test made before t is added: one text too many is taken
budget_step_late(f, t) ==
    LET text == f.scored_results[f.i][1]
    IN  IF f.used_tokens > f.limit
        THEN [f EXCEPT !.counts = Append(@, t), !.broke = TRUE]
        ELSE [f EXCEPT !.counts = Append(@, t),
                       !.selected_texts = Append(@, text),
                       !.used_tokens = @ + t,
                       !.i = @ + 1]

\* continue instead of break: an over-budget text is skipped, later ones are tried
budget_step_skip(f, t) ==
    LET text == f.scored_results[f.i][1]
    IN  IF f.used_tokens + t > f.limit
        THEN [f EXCEPT !.counts = Append(@, t), !.i = @ + 1]
        ELSE [f EXCEPT !.counts = Append(@, t),
                       !.selected_texts = Append(@, text),
                       !.used_tokens = @ + t,
                       !.i = @ + 1]

\* one pass through the body of  for text, _ in scored_results  with
\* t = count_tokens(text)
budget_step(f, t) ==
    LET text == f.scored_results[f.i][1]
    IN  IF f.used_tokens + t > f.limit
        THEN [f EXCEPT !.counts = Append(@, t), !.broke = TRUE]
        ELSE [f EXCEPT !.counts = Append(@, t),
                       !.selected_texts = Append(@, text),
                       !.used_tokens = @ + t,
                       !.i = @ + 1]

BudgetCall ==
    /\ Idle
    /\ \E query_vector \in Vectors, k \in K, distance_measure \in Metrics,
          max_context_tokens \in 0..MaxCtx, reserve_tokens \in 0..MaxReserve :
        frame' = [pc |-> "loop",
                  scored_results |->
                      search_by_text(vectors, query_vector, k, distance_measure, FALSE),
                  selected_texts |-> <<>>,
                  used_tokens |-> 0,
                  limit |-> budget_limit(max_context_tokens, reserve_tokens),
                  max_context_tokens |-> max_context_tokens,
                  reserve_tokens |-> reserve_tokens,
                  counts |-> <<>>,
                  i |-> 1,
                  broke |-> FALSE]
    /\ ret' = [op |-> "running"]
    /\ UNCHANGED <<vectors, insertOrder, lastInserted, reinserted, splitter, counter, graph, loop>>

\* count_tokens is asked once per text (the keys of scored_results are
\* distinct), so its answer is drawn when the loop asks
BudgetIter ==
    /\ frame.pc = "loop"
    /\ ~frame.broke
    /\ frame.i <= Len(frame.scored_results)
    /\ \E t \in TokRange : frame' = budget_step(frame, t)
    /\ UNCHANGED <<vectors, insertOrder, lastInserted, reinserted, splitter, ret, counter, graph, loop>>

BudgetReturn ==
    /\ frame.pc = "loop"
    /\ frame.broke \/ frame.i > Len(frame.scored_results)
    /\ ret' = [op |-> "search_by_text_with_token_budget",
               selected_texts |-> frame.selected_texts,
               used_tokens |-> frame.used_tokens,
               scored_results |-> frame.scored_results,
               max_context_tokens |-> frame.max_context_tokens,
               reserve_tokens |-> frame.reserve_tokens,
               counts |-> frame.counts]
    /\ frame' = NoFrame
    /\ UNCHANGED <<vectors, insertOrder, lastInserted, reinserted, splitter, counter, graph, loop>>

\* the caller goes on to its next statement
CallerContinues ==
    /\ frame = NoFrame
    /\ ret.op \notin {"init", "idle"}
    /\ ret' = [op |-> "idle"]
    /\ UNCHANGED <<vectors, insertOrder, lastInserted, reinserted, frame, splitter, counter, graph, loop>>

\* ------------------------------------------------- CharacterTextSplitter
\* a document of n characters; its characters are pairwise distinct and
\* named by their position, so a chunk shows which positions it holds
Text(n) == [p \in 1..n |-> p]
Texts == {Text(n) : n \in 0..MaxLen}
ChunkArgs == (0 - MaxChunk)..MaxChunk

\* the assert written with >=: a stride of 0 is accepted
init_accepts_equal(chunk_size, chunk_overlap) == chunk_size >= chunk_overlap

\* the assert of __init__
init_accepts(chunk_size, chunk_overlap) == chunk_size > chunk_overlap

\* range(0, stop, step) for step >= 1, as the sequence of its values
RECURSIVE range_from(_, _, _)
range_from(i, stop, step) ==
    IF i >= stop THEN <<>> ELSE <<i>> \o range_from(i + step, stop, step)

\* each slice one character short: text[i : i + chunk_size - 1]
split_short_slice(chunk_size, chunk_overlap, text) ==
    LET offsets == range_from(0, Len(text), chunk_size - chunk_overlap)
    IN  [j \in 1..Len(offsets) |-> Slice(text, offsets[j], offsets[j] + chunk_size - 1)]

\* a trailing chunk shorter than chunk_size is dropped
split_full_only(chunk_size, chunk_overlap, text) ==
    LET offsets == range_from(0, Len(text), chunk_size - chunk_overlap)
        all == [j \in 1..Len(offsets) |-> Slice(text, offsets[j], offsets[j] + chunk_size)]
    IN  SelectSeq(all, LAMBDA c : Len(c) = chunk_size)

\* every chunk starts where the one before it ended: the overlap is ignored
split_no_overlap(chunk_size, chunk_overlap, text) ==
    LET offsets == range_from(0, Len(text), Max(chunk_size, chunk_size - chunk_overlap))
    IN  [j \in 1..Len(offsets) |-> Slice(text, offsets[j], offsets[j] + chunk_size)]

split(chunk_size, chunk_overlap, text) ==
    LET offsets == range_from(0, Len(text), chunk_size - chunk_overlap)
    IN  [j \in 1..Len(offsets) |-> Slice(text, offsets[j], offsets[j] + chunk_size)]

Construct ==
    /\ \E chunk_size \in ChunkArgs, chunk_overlap \in ChunkArgs :
        IF init_accepts(chunk_size, chunk_overlap)
        THEN /\ splitter' = [constructed |-> TRUE, chunk_size |-> chunk_size,
                             chunk_overlap |-> chunk_overlap]
             /\ ret' = [op |-> "CharacterTextSplitter", error |-> "none",
                        chunk_size |-> chunk_size, chunk_overlap |-> chunk_overlap]
        ELSE /\ splitter' = splitter
             /\ ret' = [op |-> "CharacterTextSplitter", error |-> "AssertionError",
                        chunk_size |-> chunk_size, chunk_overlap |-> chunk_overlap]
    /\ UNCHANGED <<vectors, insertOrder, lastInserted, reinserted, frame, counter, graph, loop>>

Split ==
    /\ splitter.constructed
    /\ \E text \in Texts :
        ret' = [op |-> "split", text |-> text,
                chunk_size |-> splitter.chunk_size,
                chunk_overlap |-> splitter.chunk_overlap,
                chunks |-> split(splitter.chunk_size, splitter.chunk_overlap, text)]
    /\ UNCHANGED <<vectors, insertOrder, lastInserted, reinserted, frame, splitter, counter, graph, loop>>

\* ---------------------------------------------------------- TokenCounter
\* strings whose characters the code inspects are sequences of characters
Lower(c) ==
    CASE c = "G" -> "g" [] c = "P" -> "p" [] c = "T" -> "t" [] c = "O" -> "o"
      [] c = "Y" -> "y" [] c = "N" -> "n" [] OTHER -> c
lower(s) == [i \in 1..Len(s) |-> Lower(s[i])]
\* Python's `sub in s`
Contains(s, sub) ==
    \E i \in 0..(Len(s) - Len(sub)) : SubSeq(s, i + 1, i + Len(sub)) = sub

\* model names given to TokenCounter: gpt-4.1-mini (the default), GPT-4o,
\* gpt-3.5-turbo
ModelNames ==
    { <<"g", "p", "t", "-", "4", ".", "1", "-", "m", "i", "n", "i">>,
      <<"G", "P", "T", "-", "4", "o">>,
      <<"g", "p", "t", "-", "3", ".", "5", "-", "t", "u", "r", "b", "o">> }
EncodingNames == {"o200k_base", "cl100k_base"}
encoding_for_model(model_name) ==
    IF \E x \in { <<"4", ".", "1">>, <<"4", "o">>, <<"o", "-">>,
                  <<"g", "p", "t", "-", "4", "o">> } :
           Contains(lower(model_name), x)
    THEN "o200k_base" ELSE "cl100k_base"

\* texts given to count: the empty string, plain text, and text holding a
\* special token, which encode() refuses
TokTexts == {"", "hello world", "<|endoftext|>"}
\* what encode(text) does in a loaded encoding: raise (<<>>), or give a
\* list of n tokens (<<n>>); the empty string has no tokens
EncodeRaises == <<>>
Encodings ==
    {e \in [TokTexts -> {EncodeRaises} \cup {<<n>> : n \in 0..MaxTokens}] :
        e[""] = <<0>>}

\* self._encoding after __init__: <<>> is None, <<e>> a loaded encoding
TokenCounter_init(tiktoken_present, model_name, raising, table) ==
    IF ~tiktoken_present THEN <<>>
    ELSE LET enc_name == encoding_for_model(model_name)
         IN  IF enc_name \notin raising
             THEN << [name |-> enc_name, encode |-> table] >>
             ELSE IF "cl100k_base" \notin raising
                  THEN << [name |-> "cl100k_base", encode |-> table] >>
                  ELSE <<>>

\* the `is not None` test of count
encoding_loaded(encoding) == encoding # <<>>

\* count(text): <<n>> is the integer n, <<>> is None (the function ends
\* without a return statement)
count(encoding, text) ==
    IF encoding_loaded(encoding)
    THEN IF encoding[1].encode[text] = EncodeRaises
         THEN <<0>>
         ELSE << encoding[1].encode[text][1] >>
    ELSE <<>>

\* history: per text, the first and the latest result count has given
Noted(calls, text, result) ==
    [calls EXCEPT ![text] = IF @ = <<>> THEN <<result, result>>
                                        ELSE <<@[1], result>>]

\* m.get("content", ""): a message is <<content>> or, without the key, <<>>
content_of(m) == IF m = <<>> THEN "" ELSE m[1]
Messages == {<<>>} \cup {<<t>> : t \in TokTexts}
MessageLists ==
    UNION {[1..n -> Messages] : n \in 0..MaxMessages}

\* the loop of count_messages from message i on: the total, or a TypeError
\* when `total += None` is reached; every call of count is noted
RECURSIVE count_messages_from(_, _, _, _, _)
count_messages_from(encoding, messages, i, total, calls) ==
    IF i > Len(messages)
    THEN [error |-> "none", total |-> <<total>>, calls |-> calls]
    ELSE LET text == content_of(messages[i])
             c == count(encoding, text)
             noted == Noted(calls, text, c)
         IN  IF c = <<>>
             THEN [error |-> "TypeError", total |-> <<>>, calls |-> noted]
             ELSE count_messages_from(encoding, messages, i + 1,
                                      total + c[1], noted)
count_messages(encoding, messages, calls) ==
    count_messages_from(encoding, messages, 1, 0, calls)

\* the run follows one instance from its construction on
TokenCounterInit ==
    /\ ~counter.constructed
    /\ \E tiktoken_present \in BOOLEAN, model_name \in ModelNames,
          raising \in SUBSET EncodingNames, table \in Encodings :
        counter' = [constructed |-> TRUE, model_name |-> model_name,
                    encoding |-> TokenCounter_init(tiktoken_present, model_name,
                                                   raising, table),
                    calls |-> [t \in TokTexts |-> <<>>]]
    /\ ret' = [op |-> "TokenCounter"]
    /\ UNCHANGED <<vectors, insertOrder, lastInserted, reinserted, frame, splitter, graph, loop>>

TokenCount ==
    /\ counter.constructed
    /\ \E text \in TokTexts :
        /\ ret' = [op |-> "count", text |-> text,
                   result |-> count(counter.encoding, text)]
        /\ counter' = [counter EXCEPT
                         !.calls = Noted(@, text, count(counter.encoding, text))]
    /\ UNCHANGED <<vectors, insertOrder, lastInserted, reinserted, frame, splitter, graph, loop>>

TokenCountMessages ==
    /\ counter.constructed
    /\ \E messages \in MessageLists :
        LET r == count_messages(counter.encoding, messages, counter.calls)
        IN  /\ ret' = [op |-> "count_messages", messages |-> messages,
                       error |-> r.error, total |-> r.total]
            /\ counter' = [counter EXCEPT !.calls = r.calls]
    /\ UNCHANGED <<vectors, insertOrder, lastInserted, reinserted, frame, splitter, graph, loop>>

\* ------------------------------------------------------------- LangGraph
\* A string is the sequence of its pieces; a literal of the source is one
\* piece.  A message without id has id 0.
HumanMessage(content) ==
    [type |-> "human", content |-> content, id |-> 0, tool_calls |-> FALSE]
AIMessage(content) ==
    [type |-> "ai", content |-> content, id |-> 0, tool_calls |-> FALSE]
\* what the model and the tool node produce
AIToolCallMessage ==
    [type |-> "ai", content |-> <<>>, id |-> 0, tool_calls |-> TRUE]
ToolMessage ==
    [type |-> "tool", content |-> <<"tool result">>, id |-> 0, tool_calls |-> FALSE]
Last(seq) == seq[Len(seq)]
ButLast(seq) == SubSeq(seq, 1, Len(seq) - 1)

\* the add_messages reducer named in the state schemas: messages without id
\* get a fresh one, a message whose id is already in the list replaces that
\* entry in place, every other message is appended
MaxId(msgs) ==
    IF msgs = <<>> THEN 0
    ELSE CHOOSE n \in {msgs[i].id : i \in 1..Len(msgs)} :
             \A j \in 1..Len(msgs) : msgs[j].id <= n
RECURSIVE merge_messages(_, _, _)
merge_messages(merged, right, i) ==
    IF i > Len(right) THEN merged
    ELSE IF \E j \in 1..Len(merged) : merged[j].id = right[i].id
         THEN merge_messages(
                  [merged EXCEPT ![CHOOSE j \in 1..Len(merged) :
                                       merged[j].id = right[i].id] = right[i]],
                  right, i + 1)
         ELSE merge_messages(Append(merged, right[i]), right, i + 1)
add_messages(left, right) ==
    LET base == MaxId(left \o right)
        with_ids == [i \in 1..Len(right) |->
                        IF right[i].id = 0 THEN [right[i] EXCEPT !.id = base + i]
                        ELSE right[i]]
    IN  merge_messages(left, with_ids, 1)

\* state.get(key, default) on the dict a node or a router is given
Get(state, key, default) == IF key \in DOMAIN state THEN state[key] ELSE default

\* the keys of the state schemas: StateGraph(schema) has one channel per key
AgentState == {"messages"}
GuardedAgentState == {"messages", "guard_logs", "validation_failures"}

\* how StateGraph applies the dict a node returns: keys of the schema are
\* written to their channels, "messages" through its reducer and the others
\* by overwriting; keys that are not in the schema have no channel and are
\* not written
apply_update(schema, state, update) ==
    LET written == DOMAIN update \cap schema
    IN  [key \in DOMAIN state \cup written |->
            IF key \notin written THEN state[key]
            ELSE IF key = "messages"
                 THEN add_messages(Get(state, "messages", <<>>), update[key])
                 ELSE update[key]]

\* ---------------------------------------------------------- guarded agent
\* texts: a user's question with and without personal data, the model's
\* answers, and what a guard gives back for a text it redacts
PII == {"123-45-6789"}
Redacted(text) ==
    [i \in 1..Len(text) |-> IF text[i] \in PII THEN "<REDACTED>" ELSE text[i]]
UserTexts == { <<"what is loan forgiveness?">>, <<"my SSN is ", "123-45-6789">> }
ModelAnswers == { <<"an answer">>, <<"your SSN is ", "123-45-6789">> }
PriorMessages(n) == [i \in 1..n |-> AIMessage(<<"an earlier answer">>)]

\* what guard.validate(text) does: raise, or give a result with
\* validation_passed and validated_output (the text, or the text redacted)
GuardResults(text) ==
    { [raised |-> TRUE, validation_passed |-> FALSE, validated_output |-> text] }
    \cup { [raised |-> FALSE, validation_passed |-> passed, validated_output |-> out] :
             passed \in BOOLEAN, out \in {text, Redacted(text)} }

\* the message texts of the nodes (the error text of a guard is one piece)
InputValidationFailed == <<"Input validation failed: ", "error">>
RequestBlocked == <<"Request blocked: ", "error">>
UnableSafe == <<"Unable to generate safe response. Please rephrase your question.">>
UnableAppropriate == <<"Unable to generate appropriate response.">>
RefineAfterFailure == <<"The previous response failed validation. Please provide a more appropriate response">>
RefineAfterException == <<"Please rephrase your response to be more professional and appropriate.">>

guard_log(node, status) == [node |-> node, status |-> status]

\* each node function gives the dict it returns
input_guard_node(enable_input_guards, state, result) ==
    IF ~enable_input_guards
    THEN [guard_logs |-> << guard_log("input_guard", "skipped") >>]
    ELSE LET user_message == Last(state.messages).content
             logs(status) == Get(state, "guard_logs", <<>>)
                                 \o << guard_log("input_guard", status) >>
         IN  IF result.raised
             THEN [messages |-> << AIMessage(RequestBlocked) >>,
                   guard_logs |-> logs("blocked"),
                   blocked |-> TRUE]
             ELSE IF ~result.validation_passed
             THEN [messages |-> << AIMessage(InputValidationFailed) >>,
                   guard_logs |-> logs("failed"),
                   blocked |-> TRUE]
             ELSE IF result.validated_output # user_message
             THEN [messages |-> ButLast(state.messages)
                                    \o << HumanMessage(result.validated_output) >>,
                   guard_logs |-> logs("passed")]
             ELSE [guard_logs |-> logs("passed")]

call_model(response) == [messages |-> << response >>]
tool_node == [messages |-> << ToolMessage >>]

max_retries_exceeded_strict(current_failures, max_refinement_loops) ==
    current_failures > max_refinement_loops
\* the test that ends the refinement attempts
max_retries_exceeded(current_failures, max_refinement_loops) ==
    current_failures >= max_refinement_loops

output_guard_node(enable_output_guards, max_refinement_loops, state, result) ==
    LET agent_response == Last(state.messages).content
        logs(status) == Get(state, "guard_logs", <<>>)
                            \o << guard_log("output_guard", status) >>
        current_failures == Get(state, "validation_failures", 0)
        refine(status, fallback, prompt) ==
            IF max_retries_exceeded(current_failures, max_refinement_loops)
            THEN [messages |-> << AIMessage(fallback) >>,
                  guard_logs |-> logs(status),
                  needs_refinement |-> FALSE]
            ELSE [messages |-> state.messages \o << HumanMessage(prompt) >>,
                  guard_logs |-> logs(status),
                  validation_failures |-> current_failures + 1,
                  needs_refinement |-> TRUE]
    IN  IF ~enable_output_guards
        THEN [guard_logs |-> logs("skipped")]
        ELSE IF result.raised
        THEN refine("blocked", UnableAppropriate, RefineAfterException)
        ELSE IF ~result.validation_passed
        THEN refine("failed", UnableSafe, RefineAfterFailure)
        ELSE IF result.validated_output # agent_response
        THEN [messages |-> ButLast(state.messages)
                               \o << AIMessage(result.validated_output) >>,
              guard_logs |-> logs("passed"),
              needs_refinement |-> FALSE]
        ELSE [guard_logs |-> logs("passed"),
              needs_refinement |-> FALSE]

\* the routing functions, given the state after the node's update
route_after_input_guard(state) ==
    IF Get(state, "blocked", FALSE) THEN "END" ELSE "agent"
should_continue_to_tools_or_output(state) ==
    IF Last(state.messages).tool_calls THEN "tools" ELSE "output_guard"
route_after_output_guard(state) ==
    IF Get(state, "needs_refinement", FALSE) THEN "agent" ELSE "END"

\* history: how a guard node came out
guard_outcome(enabled, result, text) ==
    IF ~enabled THEN "skipped"
    ELSE IF result.raised THEN "raised"
    ELSE IF ~result.validation_passed THEN "failed"
    ELSE IF result.validated_output # text THEN "redacted"
    ELSE "passed"

\* agent.invoke(input): the graph is compiled without checkpointer, so a
\* run starts from its input alone; the run is followed to its end
GuardedInvoke ==
    /\ graph = NoRun
    /\ \E enable_input_guards \in BOOLEAN, enable_output_guards \in BOOLEAN,
          max_refinement_loops \in 0..MaxLoops,
          n \in 0..MaxHistory, text \in UserTexts,
          failures \in {<<>>} \cup {<<f>> : f \in 0..MaxLoops} :
        LET messages == PriorMessages(n) \o << HumanMessage(text) >>
            input == IF failures = <<>>
                     THEN [messages |-> messages]
                     ELSE [messages |-> messages, validation_failures |-> failures[1]]
        IN  graph' = [kind |-> "guarded",
                      cfg |-> [enable_input_guards |-> enable_input_guards,
                               enable_output_guards |-> enable_output_guards,
                               max_refinement_loops |-> max_refinement_loops],
                      node |-> "input_guard",
                      state |-> apply_update(GuardedAgentState, [messages |-> <<>>], input),
                      tool_calls |-> 0,
                      \* history
                      ran |-> {},
                      refinements |-> 0,
                      initial_failures |-> failures,
                      original |-> text,
                      input_guard |-> [outcome |-> "none", sanitized |-> text],
                      model_input |-> <<>>,
                      last |-> [node |-> "START", outcome |-> "none",
                                failures_before |-> 0, messages_before |-> 0]]
    /\ UNCHANGED <<vectors, insertOrder, lastInserted, reinserted, frame, splitter, ret, counter, loop>>

InputGuard ==
    /\ graph.kind = "guarded"
    /\ graph.node = "input_guard"
    /\ \E result \in GuardResults(Last(graph.state.messages).content) :
        LET text == Last(graph.state.messages).content
            outcome == guard_outcome(graph.cfg.enable_input_guards, result, text)
            update == input_guard_node(graph.cfg.enable_input_guards, graph.state, result)
            state2 == apply_update(GuardedAgentState, graph.state, update)
        IN  graph' = [graph EXCEPT
                        !.state = state2,
                        !.node = route_after_input_guard(state2),
                        !.ran = @ \cup {"input_guard"},
                        !.input_guard = [outcome |-> outcome,
                                         sanitized |-> result.validated_output],
                        !.last = [node |-> "input_guard", outcome |-> outcome,
                                  failures_before |-> Get(graph.state, "validation_failures", 0),
                                  messages_before |-> Len(graph.state.messages)]]
    /\ UNCHANGED <<vectors, insertOrder, lastInserted, reinserted, frame, splitter, ret, counter, loop>>

GuardedCallModel ==
    /\ graph.kind = "guarded"
    /\ graph.node = "agent"
    /\ \E response \in {AIToolCallMessage} \cup {AIMessage(a) : a \in ModelAnswers} :
        /\ response.tool_calls => graph.tool_calls < MaxToolCalls
        /\ LET state2 == apply_update(GuardedAgentState, graph.state, call_model(response))
           IN  graph' = [graph EXCEPT
                           !.state = state2,
                           !.node = should_continue_to_tools_or_output(state2),
                           !.tool_calls = IF response.tool_calls THEN @ + 1 ELSE @,
                           !.ran = @ \cup {"agent"},
                           !.model_input = graph.state.messages,
                           !.last = [node |-> "agent", outcome |-> "none",
                                     failures_before |-> Get(graph.state, "validation_failures", 0),
                                     messages_before |-> Len(graph.state.messages)]]
    /\ UNCHANGED <<vectors, insertOrder, lastInserted, reinserted, frame, splitter, ret, counter, loop>>

GuardedTools ==
    /\ graph.kind = "guarded"
    /\ graph.node = "tools"
    /\ graph' = [graph EXCEPT
                   !.state = apply_update(GuardedAgentState, graph.state, tool_node),
                   !.node = "agent",
                   !.ran = @ \cup {"tools"},
                   !.last = [node |-> "tools", outcome |-> "none",
                             failures_before |-> Get(graph.state, "validation_failures", 0),
                             messages_before |-> Len(graph.state.messages)]]
    /\ UNCHANGED <<vectors, insertOrder, lastInserted, reinserted, frame, splitter, ret, counter, loop>>

OutputGuard ==
    /\ graph.kind = "guarded"
    /\ graph.node = "output_guard"
    /\ \E result \in GuardResults(Last(graph.state.messages).content) :
        LET text == Last(graph.state.messages).content
            outcome == guard_outcome(graph.cfg.enable_output_guards, result, text)
            update == output_guard_node(graph.cfg.enable_output_guards,
                                        graph.cfg.max_refinement_loops,
                                        graph.state, result)
            state2 == apply_update(GuardedAgentState, graph.state, update)
        IN  graph' = [graph EXCEPT
                        !.state = state2,
                        !.node = route_after_output_guard(state2),
                        !.ran = @ \cup {"output_guard"},
                        !.refinements = IF route_after_output_guard(state2) = "agent"
                                        THEN @ + 1 ELSE @,
                        !.last = [node |-> "output_guard", outcome |-> outcome,
                                  failures_before |-> Get(graph.state, "validation_failures", 0),
                                  messages_before |-> Len(graph.state.messages)]]
    /\ UNCHANGED <<vectors, insertOrder, lastInserted, reinserted, frame, splitter, ret, counter, loop>>

\* ---------------------------------------------------------- helpful agent
\* f"HELPFULNESS:{decision}"
Helpfulness(decision) == <<"HELPFULNESS:", decision>>
\* what the evaluator chain replies, character by character
Replies == { <<"Y">>, <<"N">>, <<"Y", "e", "s">>, <<"N", "o">>, <<"y", "e", "s">> }
Queries == { <<"what is loan forgiveness?">> }

route_to_action_or_helpfulness(state) ==
    IF Last(state.messages).tool_calls THEN "action" ELSE "helpfulness"

loop_limit_exceeded_late(n_messages, max_iterations) ==
    n_messages > max_iterations + 2
\* the short-circuit test of helpfulness_node
loop_limit_exceeded(n_messages, max_iterations) ==
    n_messages > max_iterations

\* what the evaluator chain is invoked with
evaluation_inputs(state) ==
    [initial_query |-> state.messages[1].content,
     final_response |-> Last(state.messages).content]

helpfulness_verdict_any_case(helpfulness_response) ==
    IF Contains(lower(helpfulness_response), <<"y">>) THEN "Y" ELSE "N"
\* "Y" if "Y" in helpfulness_response else "N"
helpfulness_verdict(helpfulness_response) ==
    IF Contains(helpfulness_response, <<"Y">>) THEN "Y" ELSE "N"

helpfulness_node(max_iterations, state, helpfulness_response) ==
    IF loop_limit_exceeded(Len(state.messages), max_iterations)
    THEN [messages |-> << AIMessage(Helpfulness("END")) >>]
    ELSE [messages |-> << AIMessage(Helpfulness(helpfulness_verdict(helpfulness_response))) >>]

\* the label helpfulness_decision returns, and the node its edge map gives
helpfulness_decision(state) ==
    IF Last(state.messages).content = Helpfulness("END") THEN "END"
    ELSE IF Contains(Last(state.messages).content, Helpfulness("Y")) THEN "end"
    ELSE "continue"
helpfulness_edge(label) == IF label = "continue" THEN "agent" ELSE "END"

HelpfulInvoke ==
    /\ graph = NoRun
    /\ \E max_iterations \in 0..MaxIter, n \in 0..MaxHistory, query \in Queries :
        graph' = [kind |-> "helpful",
                  cfg |-> [max_iterations |-> max_iterations],
                  node |-> "agent",
                  state |-> apply_update(AgentState, [messages |-> <<>>],
                                [messages |-> << HumanMessage(query) >> \o PriorMessages(n)]),
                  tool_calls |-> 0,
                  \* history
                  ran |-> {},
                  continues |-> 0,
                  first |-> query,
                  last |-> [node |-> "START", consulted |-> FALSE,
                            reply |-> <<>>, evaluated |-> <<>>,
                            messages_before |-> 0]]
    /\ UNCHANGED <<vectors, insertOrder, lastInserted, reinserted, frame, splitter, ret, counter, loop>>

HelpfulCallModel ==
    /\ graph.kind = "helpful"
    /\ graph.node = "agent"
    /\ \E response \in {AIToolCallMessage} \cup {AIMessage(a) : a \in ModelAnswers} :
        /\ response.tool_calls => graph.tool_calls < MaxToolCalls
        /\ LET state2 == apply_update(AgentState, graph.state, call_model(response))
           IN  graph' = [graph EXCEPT
                           !.state = state2,
                           !.node = route_to_action_or_helpfulness(state2),
                           !.tool_calls = IF response.tool_calls THEN @ + 1 ELSE @,
                           !.ran = @ \cup {"agent"},
                           !.last = [node |-> "agent", consulted |-> FALSE,
                                     reply |-> <<>>, evaluated |-> <<>>,
                                     messages_before |-> Len(graph.state.messages)]]
    /\ UNCHANGED <<vectors, insertOrder, lastInserted, reinserted, frame, splitter, ret, counter, loop>>

HelpfulAction ==
    /\ graph.kind = "helpful"
    /\ graph.node = "action"
    /\ graph' = [graph EXCEPT
                   !.state = apply_update(AgentState, graph.state, tool_node),
                   !.node = "agent",
                   !.ran = @ \cup {"action"},
                   !.last = [node |-> "action", consulted |-> FALSE,
                             reply |-> <<>>, evaluated |-> <<>>,
                             messages_before |-> Len(graph.state.messages)]]
    /\ UNCHANGED <<vectors, insertOrder, lastInserted, reinserted, frame, splitter, ret, counter, loop>>

\* the evaluator is consulted only below the loop limit
HelpfulnessNode ==
    /\ graph.kind = "helpful"
    /\ graph.node = "helpfulness"
    /\ LET limit == loop_limit_exceeded(Len(graph.state.messages), graph.cfg.max_iterations)
       IN  \E helpfulness_response \in IF limit THEN {<<>>} ELSE Replies :
            LET update == helpfulness_node(graph.cfg.max_iterations, graph.state,
                                           helpfulness_response)
                state2 == apply_update(AgentState, graph.state, update)
                next == helpfulness_edge(helpfulness_decision(state2))
            IN  graph' = [graph EXCEPT
                            !.state = state2,
                            !.node = next,
                            !.ran = @ \cup {"helpfulness"},
                            !.continues = IF next = "agent" THEN @ + 1 ELSE @,
                            !.last = [node |-> "helpfulness", consulted |-> ~limit,
                                      reply |-> helpfulness_response,
                                      evaluated |-> IF limit THEN <<>>
                                                    ELSE << evaluation_inputs(graph.state) >>,
                                      messages_before |-> Len(graph.state.messages)]]
    /\ UNCHANGED <<vectors, insertOrder, lastInserted, reinserted, frame, splitter, ret, counter, loop>>

\* ------------------------------------------- abuild_from_list, interleaved
\* The coroutines run on one event loop: a coroutine that holds the loop
\* keeps it until it awaits or ends, and everything else (another coroutine,
\* a search, a retrieve) runs only while no coroutine holds it.
AsyncTextLists == { <<>>, <<"A">>, <<"A", "B">>, <<"B", "A">> }
\* what the provider answers to a request of n texts: n - 1, n or n + 1
\* embeddings
ProviderAnswers(n) ==
    {[i \in 1..m |-> v] : m \in Max(n - 1, 0)..(n + 1), v \in Vectors}

loop_body_awaits_each_insert == TRUE
\* the body of the for loop has no await
loop_body_awaits == FALSE

\* history: the calls whose request was answered, in the order of their
\* insert blocks, run one after the other from the empty store
RECURSIVE SerialStore(_, _)
SerialStore(calls, n) ==
    IF n = 0 THEN <<>>
    ELSE abuild_from_list(SerialStore(calls, n - 1),
                          calls[n].list_of_text, calls[n].embeddings).vectors

\* the call runs to its await: the one request is issued
AbuildStart(t) ==
    /\ loop.running = "none"
    /\ loop.tasks[t].pc = "new"
    /\ \E list_of_text \in AsyncTextLists :
        loop' = [loop EXCEPT
                   !.tasks[t] = [pc |-> "awaiting", list_of_text |-> list_of_text],
                   !.requests[t] = @ + 1,
                   !.started = Append(@, t)]
    /\ UNCHANGED <<vectors, insertOrder, lastInserted, reinserted, ret>>
    /\ UNCHANGED <<frame, splitter, counter, graph>>

\* the request is answered: the coroutine is resumed and holds the loop
AbuildResume(t) ==
    /\ loop.running = "none"
    /\ loop.tasks[t].pc = "awaiting"
    /\ \E embeddings \in ProviderAnswers(Len(loop.tasks[t].list_of_text)) :
        loop' = [loop EXCEPT
                   !.running = t,
                   !.tasks[t] = [pc |-> "loop", i |-> 1,
                                 list_of_text |-> loop.tasks[t].list_of_text,
                                 embeddings |-> embeddings],
                   !.serial = Append(@, [task |-> t,
                                         list_of_text |-> loop.tasks[t].list_of_text,
                                         embeddings |-> embeddings])]
    /\ UNCHANGED <<vectors, insertOrder, lastInserted, reinserted, ret>>
    /\ UNCHANGED <<frame, splitter, counter, graph>>

\* the request raises in the awaiting coroutine
AbuildRequestRaises(t) ==
    /\ loop.running = "none"
    /\ loop.tasks[t].pc = "awaiting"
    /\ loop' = [loop EXCEPT !.tasks[t] = [pc |-> "done", error |-> "ProviderError"]]
    /\ UNCHANGED <<vectors, insertOrder, lastInserted, reinserted, ret>>
    /\ UNCHANGED <<frame, splitter, counter, graph>>

\* one turn of  for text, embedding in zip(..., strict=True): the next pair is
\* inserted, or zip ends the loop (with ValueError when the lengths differ)
AbuildLoop(t) ==
    /\ loop.running \in {"none", t}
    /\ loop.tasks[t].pc = "loop"
    /\ LET f == loop.tasks[t]
           n == Min(Len(f.list_of_text), Len(f.embeddings))
       IN  IF f.i <= n
           THEN LET h == Logged(History, f.list_of_text[f.i], f.embeddings[f.i])
                IN  /\ vectors' = insert(vectors, f.list_of_text[f.i],
                                         np_array(f.embeddings[f.i]))
                    /\ insertOrder' = h.order
                    /\ lastInserted' = h.last
                    /\ reinserted' = h.again
                    /\ loop' = [loop EXCEPT
                                  !.running = IF loop_body_awaits THEN "none" ELSE t,
                                  !.tasks[t].i = @ + 1]
           ELSE /\ loop' = [loop EXCEPT
                              !.running = "none",
                              !.tasks[t] =
                                  [pc |-> "done",
                                   error |-> IF Len(f.list_of_text) = Len(f.embeddings)
                                             THEN "none" ELSE "ValueError"]]
                /\ UNCHANGED <<vectors, insertOrder, lastInserted, reinserted>>
    /\ UNCHANGED ret
    /\ UNCHANGED <<frame, splitter, counter, graph>>

\* a retrieve or a search called while no coroutine holds the loop
AsyncRetrieve ==
    /\ loop.running = "none"
    /\ \E key \in Keys :
        /\ ret' = [op |-> "retrieve_from_key", key |-> key,
                   value |-> retrieve_from_key(vectors, key),
                   pre |-> vectors, blocks |-> Len(loop.serial)]
        /\ vectors' = vectors_after_get(vectors, key)
    /\ UNCHANGED <<insertOrder, lastInserted, reinserted, loop>>
    /\ UNCHANGED <<frame, splitter, counter, graph>>

AsyncSearch ==
    /\ loop.running = "none"
    /\ \E query_vector \in Vectors :
        ret' = [op |-> "search", query_vector |-> query_vector, k |-> MaxK,
                distance_measure |-> "dot_product",
                result |-> search(vectors, query_vector, MaxK, "dot_product"),
                pre |-> vectors, blocks |-> Len(loop.serial)]
    /\ UNCHANGED <<vectors, insertOrder, lastInserted, reinserted, loop>>
    /\ UNCHANGED <<frame, splitter, counter, graph>>

\* ----------------------------------------------------------- simple agent
\* the conversations a run is invoked with: one to MaxHistory + 1 user messages
Conversations ==
    UNION {[1..n -> {HumanMessage(t) : t \in UserTexts}] : n \in 1..(MaxHistory + 1)}
\* what the model answers: text, tool calls, or both
ModelResponses ==
    {[type |-> "ai", content |-> content, id |-> 0, tool_calls |-> tool_calls] :
        content \in ModelAnswers \cup {<<>>}, tool_calls \in BOOLEAN}

should_continue_inverted(state) ==
    IF Last(state.messages).tool_calls THEN "END" ELSE "action"
should_continue(state) ==
    IF Last(state.messages).tool_calls THEN "action" ELSE "END"

\* set_entry_point("agent")
SimpleInvoke ==
    /\ graph = NoRun
    /\ \E messages \in Conversations :
        graph' = [kind |-> "simple",
                  node |-> "agent",
                  state |-> apply_update(AgentState, [messages |-> <<>>],
                                         [messages |-> messages]),
                  tool_calls |-> 0,
                  \* history: the nodes executed, in order
                  trace |-> <<>>]
    /\ UNCHANGED <<vectors, insertOrder, lastInserted, reinserted, frame, splitter, ret, counter, loop>>

SimpleCallModel ==
    /\ graph.kind = "simple"
    /\ graph.node = "agent"
    /\ \E response \in ModelResponses :
        /\ response.tool_calls => graph.tool_calls < MaxToolCalls
        /\ LET state2 == apply_update(AgentState, graph.state, call_model(response))
           IN  graph' = [graph EXCEPT
                           !.state = state2,
                           !.node = should_continue(state2),
                           !.tool_calls = IF response.tool_calls THEN @ + 1 ELSE @,
                           !.trace = Append(@, [node |-> "agent",
                                                tool_calls |-> response.tool_calls])]
    /\ UNCHANGED <<vectors, insertOrder, lastInserted, reinserted, frame, splitter, ret, counter, loop>>

\* add_edge("action", "agent")
SimpleAction ==
    /\ graph.kind = "simple"
    /\ graph.node = "action"
    /\ graph' = [graph EXCEPT
                   !.state = apply_update(AgentState, graph.state, tool_node),
                   !.node = "agent",
                   !.trace = Append(@, [node |-> "action", tool_calls |-> FALSE])]
    /\ UNCHANGED <<vectors, insertOrder, lastInserted, reinserted, frame, splitter, ret, counter, loop>>

Next ==
    \/ Insert
    \/ Search
    \/ RetrieveFromKey
    \/ AbuildFromList
    \/ AbuildProviderRaises
    \/ CallerContinues

Spec == Init /\ [][Next]_vars

NextBudget ==
    \/ Insert
    \/ BudgetCall
    \/ BudgetIter
    \/ BudgetReturn
    \/ CallerContinues

SpecBudget == Init /\ [][NextBudget]_vars

NextSplit ==
    \/ Construct
    \/ Split

SpecSplit == Init /\ [][NextSplit]_vars

NextAsync ==
    \/ \E t \in Tasks : AbuildStart(t)
    \/ \E t \in Tasks : AbuildResume(t)
    \/ \E t \in Tasks : AbuildRequestRaises(t)
    \/ \E t \in Tasks : AbuildLoop(t)
    \/ AsyncRetrieve
    \/ AsyncSearch

SpecAsync == Init /\ [][NextAsync]_vars

NextTokens ==
    \/ TokenCounterInit
    \/ TokenCount
    \/ TokenCountMessages

SpecTokens == Init /\ [][NextTokens]_vars

NextGuarded ==
    \/ GuardedInvoke
    \/ InputGuard
    \/ GuardedCallModel
    \/ GuardedTools
    \/ OutputGuard

SpecGuarded == Init /\ [][NextGuarded]_vars

NextSimple ==
    \/ SimpleInvoke
    \/ SimpleCallModel
    \/ SimpleAction

SpecSimple == Init /\ [][NextSimple]_vars

NextHelpful ==
    \/ HelpfulInvoke
    \/ HelpfulCallModel
    \/ HelpfulAction
    \/ HelpfulnessNode

SpecHelpful == Init /\ [][NextHelpful]_vars

\* the graph runner executes the node that is due until the run has ended
SpecHelpfulFair == SpecHelpful /\ WF_vars(NextHelpful)

\* ================================================================ claims
Count(seq, key) == Cardinality({i \in 1..Len(seq) : seq[i][1] = key})
Pos(order, key) == CHOOSE i \in 1..Len(order) : order[i] = key
LastPos(list, key) ==
    CHOOSE i \in 1..Len(list) : list[i] = key /\ \A j \in (i + 1)..Len(list) : list[j] # key
BudgetDone == ret.op = "search_by_text_with_token_budget"
ClaimLimit(r) == Max(0, r.max_context_tokens - r.reserve_tokens)
Accounted(r) ==
    /\ r.used_tokens = SumTo(r.counts, Len(r.selected_texts))
    /\ r.used_tokens <= ClaimLimit(r)

\* C1: in search_by_text_with_token_budget, used_tokens is the sum of
\* count_tokens over selected_texts and never exceeds
\* max(0, max_context_tokens - reserve_tokens), after every loop iteration and
\* at return, for integer token counts (negative ones included).
C1_UsedTokensWithinLimit ==
    /\ frame.pc = "loop" => Accounted(frame)
    /\ BudgetDone => Accounted(ret)

\* C1 witness: a call returned after taking two texts that fill the limit
\* exactly and leaving a third out.
C1_Witness ==
    /\ BudgetDone
    /\ Len(ret.selected_texts) = 2
    /\ Len(ret.scored_results) = 3
    /\ ret.used_tokens = ClaimLimit(ret)
    /\ ret.used_tokens > 0

\* C2: the selection is a prefix of the ranked list: every text taken kept the
\* running total within the limit, the first text left out would have pushed
\* it above the limit, and nothing after that text is taken.
C2_SelectionIsGreedyPrefix ==
    BudgetDone =>
        LET n == Len(ret.selected_texts)
        IN  /\ n <= Len(ret.scored_results)
            /\ ret.selected_texts = [j \in 1..n |-> ret.scored_results[j][1]]
            /\ \A j \in 1..n : SumTo(ret.counts, j) <= ClaimLimit(ret)
            /\ n < Len(ret.scored_results) =>
                   /\ Len(ret.counts) = n + 1
                   /\ SumTo(ret.counts, n + 1) > ClaimLimit(ret)

\* C2 witness: three ranked results, the second one over budget: only the
\* first is selected and the third is never asked for its token count.
C2_Witness ==
    /\ BudgetDone
    /\ Len(ret.scored_results) = 3
    /\ Len(ret.selected_texts) = 1
    /\ Len(ret.counts) = 2
    /\ ret.used_tokens > 0

\* C3 (as claimed): search with any k <= 0 returns an empty sequence.
C3_NonPositiveKIsEmpty ==
    (ret.op = "search" /\ ret.k <= 0) => ret.result = <<>>

C5_CountMismatchRaises ==
    (/\ ret.op = "abuild_from_list"
     /\ ret.error # "ProviderError"
     /\ Len(ret.embeddings) # Len(ret.list_of_text)) => ret.error = "ValueError"

\* C5 witness: two texts, one embedding, and the call raised.
C5_Witness ==
    /\ ret.op = "abuild_from_list"
    /\ ret.error = "ValueError"
    /\ Len(ret.list_of_text) = 2
    /\ Len(ret.embeddings) = 1

\* C6 (as claimed): a failed abuild_from_list leaves the key-to-vector mapping
\* exactly as it was before the call.
C6_FailedBuildLeavesStore ==
    (ret.op = "abuild_from_list" /\ ret.error # "none") => vectors = ret.pre

\* C7: after a successful abuild_from_list on an empty store the keys are
\* exactly the distinct texts, each once, and each text maps to the embedding
\* at its last position in the input.
C7_BuildPairsTextsWithEmbeddings ==
    (ret.op = "abuild_from_list" /\ ret.error = "none" /\ ret.pre = <<>>) =>
        LET texts == {ret.list_of_text[i] : i \in 1..Len(ret.list_of_text)}
        IN  /\ KeySet(vectors) = texts
            /\ Len(vectors) = Cardinality(texts)
            /\ \A key \in texts :
                   retrieve_from_key(vectors, key) =
                       ret.embeddings[LastPos(ret.list_of_text, key)]

\* C7 witness: a successful build on an empty store of two texts that are the
\* same text with two different embeddings.
C7_Witness ==
    /\ ret.op = "abuild_from_list"
    /\ ret.error = "none"
    /\ ret.pre = <<>>
    /\ Len(ret.list_of_text) = 2
    /\ ret.list_of_text[1] = ret.list_of_text[2]
    /\ ret.embeddings[1] # ret.embeddings[2]

InsertedKeys == {key \in Keys : lastInserted[key] # None}
LatestWins ==
    \A key \in Keys :
        /\ key \in InsertedKeys =>
               /\ retrieve_from_key(vectors, key) = lastInserted[key]
               /\ Count(vectors, key) = 1
        /\ ret.op = "retrieve_from_key" /\ ret.key = key => ret.result = lastInserted[key]

\* C8 (as claimed): retrieve_from_key returns the vector of the most recent
\* insert, and an inserted key appears exactly once in the store and exactly
\* once in any search result.
C8_OnceInEverySearchResult ==
    /\ LatestWins
    /\ ret.op = "search" => \A key \in InsertedKeys : Count(ret.result, key) = 1

\* C8 (amended): retrieve_from_key returns the vector of the most recent
\* insert, an inserted key appears exactly once in the store, at most once in
\* any search result, and exactly once when k is at least the number of keys.
C8_LatestWinsNoDuplicates ==
    /\ LatestWins
    /\ ret.op = "search" =>
           \A key \in InsertedKeys :
               /\ Count(ret.result, key) <= 1
               /\ ret.k >= Len(vectors) => Count(ret.result, key) = 1

\* C8 witness: after a re-insert, a search over the whole store of two or
\* more keys.
C8_Witness ==
    /\ ret.op = "search"
    /\ reinserted
    /\ Len(vectors) >= 2
    /\ ret.k >= Len(vectors)
    /\ Len(ret.result) = Len(vectors)

Covered(text, chunks) ==
    \A p \in 1..Len(text) :
        \E j \in 1..Len(chunks) : \E q \in 1..Len(chunks[j]) : chunks[j][q] = text[p]
EndsAtEnd(text, chunks) ==
    /\ chunks # <<>>
    /\ chunks[Len(chunks)] # <<>>
    /\ chunks[Len(chunks)][Len(chunks[Len(chunks)])] = text[Len(text)]

\* C9 (as claimed): for every constructed splitter (chunk_size >
\* chunk_overlap, zero or negative overlap included) and every non-empty text,
\* the chunks cover every character and the last chunk ends at len(text).
C9_EverySplitterCovers ==
    (ret.op = "split" /\ ret.text # <<>>) =>
        Covered(ret.text, ret.chunks) /\ EndsAtEnd(ret.text, ret.chunks)

\* C9 (amended): for every splitter with chunk_size > chunk_overlap >= 0 and
\* every non-empty text, the chunks cover every character and the last chunk
\* ends at len(text).
C9_NonNegativeOverlapCovers ==
    (ret.op = "split" /\ ret.text # <<>> /\ ret.chunk_overlap >= 0) =>
        Covered(ret.text, ret.chunks) /\ EndsAtEnd(ret.text, ret.chunks)

\* C9 witness: a split with a positive overlap into three or more chunks, the
\* last of them shorter than chunk_size.
C9_Witness ==
    /\ ret.op = "split"
    /\ ret.chunk_overlap > 0
    /\ Len(ret.chunks) >= 3
    /\ Len(ret.chunks[Len(ret.chunks)]) < ret.chunk_size

NonNegativeCounts(r) == \A j \in 1..Len(r.counts) : r.counts[j] >= 0

\* C10 (as claimed): when the limit is 0 the selection is empty and
\* used_tokens is 0, for every count_tokens returning non-negative integers.
C10_ZeroLimitSelectsNothing ==
    (BudgetDone /\ ClaimLimit(ret) = 0 /\ NonNegativeCounts(ret)) =>
        ret.selected_texts = <<>> /\ ret.used_tokens = 0

\* C10 (amended): when the limit is 0 and count_tokens returns non-negative
\* integers, used_tokens is 0 and the selection is exactly the leading ranked
\* results whose token count is 0: it is empty when the first result has a
\* positive count or there is no result.
C10_ZeroLimitSelectsZeroCostPrefix ==
    (BudgetDone /\ ClaimLimit(ret) = 0 /\ NonNegativeCounts(ret)) =>
        LET n == Len(ret.selected_texts)
        IN  /\ ret.used_tokens = 0
            /\ ret.selected_texts = [j \in 1..n |-> ret.scored_results[j][1]]
            /\ \A j \in 1..n : ret.counts[j] = 0
            /\ n < Len(ret.scored_results) =>
                   Len(ret.counts) = n + 1 /\ ret.counts[n + 1] > 0

\* C10 witness: reserve_tokens above max_context_tokens, a first result of
\* zero tokens taken and a second of positive count left out.
C10_Witness ==
    /\ BudgetDone
    /\ ret.reserve_tokens > ret.max_context_tokens
    /\ Len(ret.selected_texts) = 1
    /\ Len(ret.counts) = 2
    /\ ret.counts[1] = 0
    /\ ret.counts[2] > 0

\* C11: a construction with chunk_overlap >= chunk_size raises and a
\* construction that raises gives no splitter; every splitter there is, and
\* every splitter split was called on, has a stride of at least 1.
C11_ConstructedStrideIsPositive ==
    /\ ret.op = "CharacterTextSplitter" =>
           /\ ret.chunk_overlap >= ret.chunk_size => ret.error = "AssertionError"
           /\ ret.error = "none" =>
                  /\ splitter.constructed
                  /\ splitter.chunk_size = ret.chunk_size
                  /\ splitter.chunk_overlap = ret.chunk_overlap
    /\ splitter.constructed => splitter.chunk_size - splitter.chunk_overlap >= 1
    /\ ret.op = "split" => ret.chunk_size - ret.chunk_overlap >= 1

\* C11 witness: a construction with equal chunk_size and chunk_overlap failed
\* before any splitter existed.
C11_Witness ==
    /\ ret.op = "CharacterTextSplitter"
    /\ ret.error = "AssertionError"
    /\ ret.chunk_overlap = ret.chunk_size
    /\ ~splitter.constructed

CeilDiv(a, b) == (a + b - 1) \div b

\* C12: split returns ceil(len(text) / stride) chunks, the i-th (from 0) being
\* the slice text[i*stride : i*stride + chunk_size]; the empty text gives no
\* chunk.
C12_ChunksAreStrideSlices ==
    ret.op = "split" =>
        LET s == ret.chunk_size - ret.chunk_overlap
        IN  /\ Len(ret.chunks) = CeilDiv(Len(ret.text), s)
            /\ \A i \in 0..(Len(ret.chunks) - 1) :
                   ret.chunks[i + 1] = Slice(ret.text, i * s, i * s + ret.chunk_size)
            /\ ret.text = <<>> => ret.chunks = <<>>

\* C12 witness: a split with a stride of 2 or more that does not divide the
\* length of the text, into two or more chunks.
C12_Witness ==
    /\ ret.op = "split"
    /\ ret.chunk_size - ret.chunk_overlap >= 2
    /\ Len(ret.text) % (ret.chunk_size - ret.chunk_overlap) # 0
    /\ Len(ret.chunks) >= 2

C15_RetrieveIsExactAndPure ==
    /\ KeySet(vectors) = InsertedKeys
    /\ ret.op = "retrieve_from_key" =>
           /\ ret.result = lastInserted[ret.key]
           /\ vectors = ret.pre

\* C15 witness: a lookup of a key never inserted, on a store of two keys,
\* returned None.
C15_Witness ==
    /\ ret.op = "retrieve_from_key"
    /\ ret.key \notin InsertedKeys
    /\ ret.result = None
    /\ Len(vectors) = 2

ChunkOffset(j) == (j - 1) * (ret.chunk_size - ret.chunk_overlap)
ReachesEnd(j) == ChunkOffset(j) + ret.chunk_size > Len(ret.text)

\* C20 (as claimed): every chunk but the last has exactly chunk_size
\* characters and the last has between 1 and chunk_size characters.
C20_OnlyLastChunkShort ==
    (ret.op = "split" /\ ret.chunks # <<>>) =>
        LET n == Len(ret.chunks)
        IN  /\ \A j \in 1..(n - 1) : Len(ret.chunks[j]) = ret.chunk_size
            /\ Len(ret.chunks[n]) >= 1
            /\ Len(ret.chunks[n]) <= ret.chunk_size

\* C20 (amended): with chunk_size >= 1 every chunk has between 1 and
\* chunk_size characters, a chunk is shorter than chunk_size exactly when its
\* slice reaches past the end of the text, the short chunks are the trailing
\* ones, and with chunk_overlap <= 1 only the last chunk can be short.
C20_ShortChunksAreTrailing ==
    (ret.op = "split" /\ ret.chunk_size >= 1) =>
        LET n == Len(ret.chunks)
        IN  /\ \A j \in 1..n :
                   /\ Len(ret.chunks[j]) >= 1
                   /\ Len(ret.chunks[j]) <= ret.chunk_size
                   /\ Len(ret.chunks[j]) < ret.chunk_size <=> ReachesEnd(j)
            /\ \A i, j \in 1..n :
                   (i < j /\ Len(ret.chunks[i]) < ret.chunk_size) =>
                       Len(ret.chunks[j]) < ret.chunk_size
            /\ ret.chunk_overlap <= 1 =>
                   \A j \in 1..(n - 1) : Len(ret.chunks[j]) = ret.chunk_size

\* C20 witness: a split with an overlap of 2 whose last two chunks are both
\* shorter than chunk_size.
C20_Witness ==
    /\ ret.op = "split"
    /\ ret.chunk_overlap = 2
    /\ Len(ret.chunks) >= 3
    /\ Len(ret.chunks[Len(ret.chunks) - 1]) < ret.chunk_size
    /\ Len(ret.chunks[Len(ret.chunks) - 2]) = ret.chunk_size

\* C14: for every text and every TokenCounter instance, with or without a
\* loaded encoding and whether or not encode raises, every call of count
\* returns a non-negative integer, and the same one for the same text.
\* (not so when no encoding was loaded: count returns None)
C14_CountIsNonNegativeInt ==
    counter.constructed =>
        \A t \in TokTexts : \A i \in 1..Len(counter.calls[t]) :
            /\ Len(counter.calls[t][i]) = 1
            /\ counter.calls[t][i][1] >= 0
            /\ counter.calls[t][i] = counter.calls[t][1]

\* what holds of count in every instance: a loaded encoding gives a
\* non-negative integer, no encoding gives None, and equal texts get equal
\* results
C14_CountIsIntOnlyWhenLoaded ==
    counter.constructed =>
        \A t \in TokTexts : \A i \in 1..Len(counter.calls[t]) :
            /\ (counter.encoding # <<>>) =>
                   Len(counter.calls[t][i]) = 1 /\ counter.calls[t][i][1] >= 0
            /\ (counter.encoding = <<>>) => counter.calls[t][i] = <<>>
            /\ counter.calls[t][i] = counter.calls[t][1]

\* count_messages on an instance without encoding stops with a TypeError
C14_CountMessagesTypeError ==
    /\ ret.op = "count_messages"
    /\ ret.error = "TypeError"

\* the messages the nodes write when they give up or block
Fallbacks == {UnableSafe, UnableAppropriate}
BlockNotices == {InputValidationFailed, RequestBlocked}

\* C16: in a run started with validation_failures absent or 0, the counter
\* never exceeds max_refinement_loops, output_guard hands the run back to
\* the agent at most max_refinement_loops times, and a failed output
\* validation met with the counter at max_refinement_loops appends a
\* fallback message and ends the run.
C16_RefinementIsBounded ==
    (graph.kind = "guarded" /\ graph.initial_failures \in {<<>>, <<0>>}) =>
        /\ Get(graph.state, "validation_failures", 0) <= graph.cfg.max_refinement_loops
        /\ graph.refinements <= graph.cfg.max_refinement_loops
        /\ (/\ graph.last.node = "output_guard"
            /\ graph.last.outcome \in {"failed", "raised"}
            /\ graph.last.failures_before >= graph.cfg.max_refinement_loops)
           => /\ graph.node = "END"
              /\ Len(graph.state.messages) = graph.last.messages_before + 1
              /\ Last(graph.state.messages).content \in Fallbacks

C16_Witness ==
    /\ graph.kind = "guarded"
    /\ graph.initial_failures \in {<<>>, <<0>>}
    /\ graph.last.node = "output_guard"
    /\ graph.last.outcome = "failed"
    /\ graph.last.failures_before >= graph.cfg.max_refinement_loops
    /\ Last(graph.state.messages).content = UnableSafe
    /\ graph.node = "END"

\* C17: with input guards enabled, when the input guard raises or reports
\* validation_passed = false the run ends directly after input_guard:
\* neither agent nor tools is executed and the last message is the block
\* notice.  (not so: the run goes on to the agent node)
C17_BlockedInputEndsRun ==
    (/\ graph.kind = "guarded"
     /\ graph.cfg.enable_input_guards
     /\ graph.input_guard.outcome \in {"raised", "failed"})
    => /\ graph.node = "END"
       /\ graph.ran \cap {"agent", "tools"} = {}
       /\ Last(graph.state.messages).content \in BlockNotices

\* C19: when input validation passes with a validated output that differs
\* from the user's message, the messages passed to the model hold the
\* sanitized text and no longer the original.  (not so: both are passed)
C19_SanitizedReplacesOriginal ==
    (/\ graph.kind = "guarded"
     /\ graph.input_guard.outcome = "redacted"
     /\ "agent" \in graph.ran)
    => /\ \E i \in 1..Len(graph.model_input) :
              graph.model_input[i].content = graph.input_guard.sanitized
       /\ \A i \in 1..Len(graph.model_input) :
              graph.model_input[i].content # graph.original

\* the loop limit of the helpful agent: the continue edge is taken at most
\* max_iterations times, and a helpfulness step that finds more than
\* max_iterations messages writes the END marker unconsulted and ends the run
LoopLimitHolds ==
    graph.kind = "helpful" =>
        /\ graph.continues <= graph.cfg.max_iterations
        /\ (/\ graph.last.node = "helpfulness"
            /\ graph.last.messages_before > graph.cfg.max_iterations)
           => /\ ~graph.last.consulted
              /\ Last(graph.state.messages).content = Helpfulness("END")
              /\ graph.node = "END"

\* C18: in the helpful agent every run in which the model stops requesting
\* tools terminates: a helpfulness step with more than max_iterations
\* messages writes HELPFULNESS:END without consulting the evaluator and the
\* run ends, so the continue edge is taken at most max_iterations times
\* whatever the evaluator answers.
C18_HelpfulRunTerminates ==
    /\ []LoopLimitHolds
    /\ (graph.kind = "helpful") ~> (graph.kind = "helpful" /\ graph.node = "END")

C18_Witness ==
    /\ graph.kind = "helpful"
    /\ graph.continues >= 1
    /\ graph.last.node = "helpfulness"
    /\ graph.last.messages_before > graph.cfg.max_iterations
    /\ graph.node = "END"

\* C21: every abuild_from_list call issues exactly one embedding request
\* and applies its inserts as one uninterrupted block after the request
\* returns: whenever no call is inside its block the store is the one that
\* the answered calls give when run one after the other in the order of
\* their blocks, and a search or retrieve between awaits sees such a store.
C21_InsertBlocksAreAtomic ==
    /\ \A t \in Tasks :
          loop.requests[t] = IF loop.tasks[t].pc = "new" THEN 0 ELSE 1
    /\ loop.running = "none" =>
          vectors = SerialStore(loop.serial, Len(loop.serial))
    /\ (ret.op \in {"search", "retrieve_from_key"}) =>
          ret.pre = SerialStore(loop.serial, ret.blocks)
    /\ (\A t \in Tasks : loop.tasks[t].pc = "done") =>
          \A t \in Tasks :
              Cardinality({i \in 1..Len(loop.serial) : loop.serial[i].task = t})
                  = IF loop.tasks[t].error = "ProviderError" THEN 0 ELSE 1

\* both calls were started before either was answered, the second one's
\* block ran first, a retrieve ran between the two blocks, and the order of
\* the blocks decides the value of a key both calls insert
C21_Witness ==
    /\ loop.started = <<"a", "b">>
    /\ \A t \in Tasks : loop.tasks[t].pc = "done" /\ loop.tasks[t].error = "none"
    /\ Len(loop.serial) = 2
    /\ loop.serial[1].task = "b"
    /\ loop.serial[1].list_of_text = <<"A", "B">>
    /\ loop.serial[2].list_of_text = <<"B", "A">>
    /\ loop.serial[1].embeddings # loop.serial[2].embeddings
    /\ ret.op = "retrieve_from_key"
    /\ ret.blocks = 1
    /\ ret.pre # vectors

\* a guarded run with output guards that the input guard did not block
UnblockedGuardedRun ==
    /\ graph.kind = "guarded"
    /\ graph.cfg.enable_output_guards
    /\ graph.input_guard.outcome \notin {"none", "raised", "failed"}

\* C22: in the guarded agent with output guards enabled, a run that is not
\* blocked at the input guard reaches END only from output_guard, and only
\* when validation passed (possibly with redaction) or the fallback message
\* was appended.  (not so: a failed validation below the limit ends the run
\* with the refinement prompt as last message)
C22_EndsOnlyAfterPassOrFallback ==
    (UnblockedGuardedRun /\ graph.node = "END") =>
        /\ graph.last.node = "output_guard"
        /\ \/ graph.last.outcome \in {"passed", "redacted"}
           \/ Last(graph.state.messages).content \in Fallbacks

\* what holds of these runs: END is reached from output_guard only
C22_EndsOnlyFromOutputGuard ==
    (UnblockedGuardedRun /\ graph.node = "END") =>
        graph.last.node = "output_guard"

\* the run that ends on a failed validation: the refinement prompt is last
C22_EndsOnRefinementPrompt ==
    /\ UnblockedGuardedRun
    /\ graph.node = "END"
    /\ graph.last.outcome \in {"failed", "raised"}
    /\ Last(graph.state.messages).content \in {RefineAfterFailure, RefineAfterException}

\* C23: in the simple agent the first node executed is agent; action runs
\* only directly after an agent step whose message carries tool calls, and
\* it does run then; agent runs next after action; and the run has ended
\* exactly when the latest agent message carries no tool calls.
C23_SimpleAgentControlFlow ==
    graph.kind = "simple" =>
        LET trace == graph.trace
            n == Len(trace)
            \* the node executed after step i, or the node that is due
            after(i) == IF i < n THEN trace[i + 1].node ELSE graph.node
        IN  /\ after(0) = "agent"
            /\ \A i \in 1..n :
                  /\ trace[i].node = "action" =>
                        i > 1 /\ trace[i - 1].node = "agent" /\ trace[i - 1].tool_calls
                  /\ trace[i].node = "action" => after(i) = "agent"
                  /\ (trace[i].node = "agent" /\ trace[i].tool_calls) =>
                        after(i) = "action"
                  /\ (trace[i].node = "agent" /\ ~trace[i].tool_calls) =>
                        after(i) = "END"
            /\ graph.node = "END" <=>
                  (n > 0 /\ trace[n].node = "agent" /\ ~trace[n].tool_calls)

C23_Witness ==
    /\ graph.kind = "simple"
    /\ graph.node = "END"
    /\ Len(graph.trace) = 3
    /\ graph.trace[1].tool_calls
    /\ graph.trace[2].node = "action"
    /\ Last(graph.state.messages).type = "ai"

\* C24: in the helpful agent a verdict containing HELPFULNESS:Y ends the run
\* and a verdict HELPFULNESS:N below the loop limit hands the run back to
\* the agent; the verdict is Y exactly when the evaluator's reply contains
\* the character 'Y'; and the initial query given to the evaluator is the
\* first message of the state.
C24_VerdictDecidesTheEdge ==
    (graph.kind = "helpful" /\ graph.last.node = "helpfulness" /\ graph.last.consulted) =>
        LET verdict == Last(graph.state.messages).content
            reply == graph.last.reply
        IN  /\ verdict \in {Helpfulness("Y"), Helpfulness("N")}
            /\ (verdict = Helpfulness("Y")) <=> (\E i \in 1..Len(reply) : reply[i] = "Y")
            /\ Contains(verdict, Helpfulness("Y")) => graph.node = "END"
            /\ verdict = Helpfulness("N") => graph.node = "agent"
            /\ graph.last.evaluated[1].initial_query = graph.state.messages[1].content
            /\ graph.last.evaluated[1].initial_query = graph.first

\* after one N verdict that handed the run back, a reply that holds a 'Y'
\* among other characters ends the run
C24_Witness ==
    /\ graph.kind = "helpful"
    /\ graph.continues >= 1
    /\ graph.last.node = "helpfulness"
    /\ graph.last.consulted
    /\ graph.last.reply = <<"Y", "e", "s">>
    /\ graph.node = "END"

\* a lower-case reply is a verdict N and hands the run back
C24_LowerCaseIsN ==
    /\ graph.kind = "helpful"
    /\ graph.last.node = "helpfulness"
    /\ graph.last.reply = <<"y", "e", "s">>
    /\ graph.node = "agent"
====
